---- MODULE Spec2Model ----
(***************************************************************************)
(* A model of github.com/shipengqi/errors: the annotated-error chain       *)
(* (errors.go) and the code registry (code.go).                            *)
(*                                                                         *)
(* A Go string is a sequence of one-character strings, so concatenation    *)
(* and fmt.Sprintf are computed character by character.  An error value    *)
(* is a record whose kind names its Go type; the nil error is Nil.  Nodes  *)
(* are immutable once built, so a record value stands for the pointer to   *)
(* the node.  The captured stack of fundamental and withStack takes no     *)
(* part in Error(), Cause(), Code(), and is left out of the records.       *)
(***************************************************************************)
EXTENDS Integers, Sequences, FiniteSets, TLC

VARIABLES
    err,      \* the error value the caller holds: the result of the last constructor call
    arg,      \* the error value that call was given
    call,     \* the last call of the sequential caller and its outcome
    _codes,   \* code.go: the registry, a map from code to Coder
    mux,      \* code.go: the mutex, 0 when free, else the thread holding it
    pc,       \* per thread: the line of Register / unregister it is at
    code,     \* per thread: the Coder argument of its call
    ok,       \* per thread: the result of its presence check
    recovered,\* per thread: the outcome of its last call
    fatal     \* the runtime has thrown on a detected concurrent map access

vars == <<err, arg, call, _codes, mux, pc, code, ok, recovered, fatal>>

seqVars == <<err, arg, call>>
concVars == <<mux, pc, code, ok, recovered, fatal>>

---------------------------------------------------------------------------
(* Bounds of the model *)

\* the longest chain (number of nodes) a caller passes to a constructor
MaxDepth == 2
\* the number of threads calling Register / unregister concurrently
NumThreads == 2
\* the largest number of arguments given to Join
MaxJoin == 3

---------------------------------------------------------------------------
(* Strings and fmt.Sprintf *)

\* the character U+0060 (grave accent), which a string literal of this
\* notation cannot hold
Backquote == "U+0060"

Digit == <<"0", "1", "2", "3", "4", "5", "6", "7", "8", "9">>

RECURSIVE Digits(_)
Digits(n) ==
    IF n < 10 THEN <<Digit[n + 1]>>
    ELSE Digits(n \div 10) \o <<Digit[(n % 10) + 1]>>

\* the %d verb on an int
Itoa(n) == IF n < 0 THEN <<"-">> \o Digits(0 - n) ELSE Digits(n)

\* how a verb renders its argument: %d an int [d |-> n], %s a string [s |-> str]
Verb(v, x) == IF v = "d" THEN Itoa(x.d) ELSE x.s

\* fmt.Sprintf for the verbs the package uses, %d and %s: the text up to the
\* first verb is copied, the verb renders the next argument, and the rest of
\* the format goes on with the arguments left
RECURSIVE Sprintf(_, _)
Sprintf(format, a) ==
    LET verbs == {i \in 1 .. Len(format) - 1 : format[i] = "%"}
    IN  IF verbs = {} THEN format
        ELSE LET i == CHOOSE j \in verbs : \A k \in verbs : j <= k
             IN  SubSeq(format, 1, i - 1)
                 \o Verb(format[i + 1], a[1])
                 \o Sprintf(SubSeq(format, i + 2, Len(format)), Tail(a))

---------------------------------------------------------------------------
(* errors.go: the node types and their constructors *)

Nil == [kind |-> "nil"]

\* New(message)
New(message) == [kind |-> "fundamental", msg |-> message]

\* Errorf(format, args...)
Errorf(format, args) == [kind |-> "fundamental", msg |-> Sprintf(format, args)]

\* WithStack(err)
WithStack(e) ==
    IF e = Nil THEN Nil
    ELSE [kind |-> "withStack", error |-> e]

\* Wrap(err, message)
Wrap(e, message) ==
    IF e = Nil THEN Nil
    ELSE [kind |-> "withStack",
          error |-> [kind |-> "withMessage", cause |-> e, msg |-> message]]

\* Wrapf(err, format, args...)
Wrapf(e, format, args) ==
    IF e = Nil THEN Nil
    ELSE [kind |-> "withStack",
          error |-> [kind |-> "withMessage", cause |-> e,
                     msg |-> Sprintf(format, args)]]

\* WithMessage(err, message)
WithMessage(e, message) ==
    IF e = Nil THEN Nil
    ELSE [kind |-> "withMessage", cause |-> e, msg |-> message]

\* WithMessagef(err, format, args...)
WithMessagef(e, format, args) ==
    IF e = Nil THEN Nil
    ELSE [kind |-> "withMessage", cause |-> e, msg |-> Sprintf(format, args)]

\* WrapCode(err, code)
WrapCode(e, c) ==
    IF e = Nil THEN Nil
    ELSE [kind |-> "withStack",
          error |-> [kind |-> "withCode", cause |-> e, code |-> c]]

\* WrapCodef(err, code, format, args...)
WrapCodef(e, c, format, args) ==
    IF e = Nil THEN Nil
    ELSE [kind |-> "withStack",
          error |-> [kind |-> "withCode",
                     cause |-> [kind |-> "withMessage", cause |-> e,
                                msg |-> Sprintf(format, args)],
                     code |-> c]]

\* WithCode(err, code)
WithCode(e, c) ==
    IF e = Nil THEN Nil
    ELSE [kind |-> "withCode", cause |-> e, code |-> c]

\* a WithCodef that forgets the nil check
WithCodefNoNilCheck(e, c, format, args) ==
    [kind |-> "withCode",
     cause |-> [kind |-> "withMessage", cause |-> e,
                msg |-> Sprintf(format, args)],
     code |-> c]

\* WithCodef(err, code, format, args...)
WithCodef(e, c, format, args) ==
    IF e = Nil THEN Nil
    ELSE [kind |-> "withCode",
          cause |-> [kind |-> "withMessage", cause |-> e,
                     msg |-> Sprintf(format, args)],
          code |-> c]

\* Codef(code, format, args...): a Base node of the formatted message,
\* wrapped in a CodeWrapper; there is no prior cause and so no nil check
Codef(c, format, args) ==
    [kind |-> "withCode",
     cause |-> [kind |-> "fundamental", msg |-> Sprintf(format, args)],
     code |-> c]

---------------------------------------------------------------------------
(* The interfaces a node satisfies, and its methods *)

\* err.(causer): the types with a Cause() method
IsCauser(e) == e.kind \in {"withStack", "withMessage", "withCode"}

\* err.(icoder): the types with a Code() method.  withStack embeds the
\* error interface, so it promotes Error() alone, never Code().
IsICoder(e) == e.kind = "withCode"

\* the Cause() method of withStack, withMessage, withCode
CauseOf(e) == IF e.kind = "withStack" THEN e.error ELSE e.cause

\* the Code() method of withCode
CodeOf(e) == e.code

\* the number of nodes on a chain
RECURSIVE Depth(_)
Depth(e) ==
    IF e = Nil THEN 0
    ELSE IF IsCauser(e) THEN 1 + Depth(CauseOf(e))
    ELSE 1

RECURSIVE Error(_)

\* (*fundamental).Error
fundamentalError(f) == f.msg

\* (*withStack).Error: the embedded error's Error, promoted
withStackError(w) == Error(w.error)

\* a withMessage.Error that puts the cause first
withMessageErrorSwapped(w) == Error(w.cause) \o <<":", " ">> \o w.msg

\* (*withMessage).Error
withMessageError(w) == w.msg \o <<":", " ">> \o Error(w.cause)

\* (*withCode).Error: fmt.Sprintf("code: %d, %s", w.code, w.cause.Error())
withCodeError(w) ==
    Sprintf(<<"c", "o", "d", "e", ":", " ", "%", "d", ",", " ", "%", "s">>,
            <<[d |-> w.code], [s |-> Error(w.cause)]>>)

\* err.Error(), dispatched on the node's type
Error(e) ==
    CASE e.kind = "fundamental" -> fundamentalError(e)
      [] e.kind = "withStack" -> withStackError(e)
      [] e.kind = "withMessage" -> withMessageError(e)
      [] e.kind = "withCode" -> withCodeError(e)

\* (*stack).Format under %+v: the frame lines, one opaque piece of text
\* that no message can contain
stackFormat == <<"frames">>

RECURSIVE FormatPlusV(_)

\* (*fundamental).Format under %+v: the message, then the stack
fundamentalFormat(f) == f.msg \o stackFormat

\* (*withStack).Format under %+v: the cause's %+v, then the stack
withStackFormat(w) == FormatPlusV(CauseOf(w)) \o stackFormat

\* (*withMessage).Format under %+v: "%+v\n" of the cause, then the message
withMessageFormat(w) == FormatPlusV(CauseOf(w)) \o <<"\n">> \o w.msg

\* (*withCode).Format under %+v: "code: %d, %+v\n" of the code and cause
withCodeFormat(w) ==
    Sprintf(<<"c", "o", "d", "e", ":", " ", "%", "d", ",", " ">>,
            <<[d |-> w.code]>>)
        \o FormatPlusV(CauseOf(w)) \o <<"\n">>

\* fmt.Sprintf("%+v", err), dispatched on the node's type
FormatPlusV(e) ==
    CASE e.kind = "fundamental" -> fundamentalFormat(e)
      [] e.kind = "withStack" -> withStackFormat(e)
      [] e.kind = "withMessage" -> withMessageFormat(e)
      [] e.kind = "withCode" -> withCodeFormat(e)

\* strings.Contains(s, substr)
Contains(s, substr) ==
    \E i \in 1 .. (Len(s) - Len(substr) + 1) :
        SubSeq(s, i, i + Len(substr) - 1) = substr

---------------------------------------------------------------------------
(* errors.go: Cause *)

RECURSIVE Cause(_)

\* a Cause that unwraps one level only
CauseOneLevel(e) ==
    IF e # Nil /\ IsCauser(e) THEN CauseOf(e) ELSE e

\* Cause(err)
Cause(e) ==
    IF e # Nil /\ IsCauser(e) THEN Cause(CauseOf(e)) ELSE e

---------------------------------------------------------------------------
(* code.go: Coder, the registry, ParseCoder, IsCode *)

\* http.StatusInternalServerError
StatusInternalServerError == 500

\* (defaultCoder).HTTPStatus
HTTPStatus(d) == IF d.status = 0 THEN StatusInternalServerError ELSE d.status

\* (defaultCoder).Reference
Reference(d) == d.ref

\* the nil Coder
NilCoder == [nil |-> TRUE]

\* var unknownCode
unknownCode ==
    [code |-> 1, status |-> StatusInternalServerError,
     msg |-> "Internal server error", ref |-> ""]

\* a package whose init installs nothing
initEmpty == [k \in {} |-> unknownCode]

\* make(map[int]Coder) followed by init(): _codes[unknownCode.Code()] = unknownCode
init == [k \in {unknownCode.code} |-> unknownCode]

\* _codes[code.Code()] = code
MapInsert(codes, c) ==
    [k \in DOMAIN codes \cup {c.code} |-> IF k = c.code THEN c ELSE codes[k]]

\* delete(_codes, code.Code())
MapDelete(codes, c) == [k \in DOMAIN codes \ {c.code} |-> codes[k]]

\* what recover() returns after a call: nothing, or the panic's value
NoPanic == [panicked |-> FALSE]
Panic(v) == [panicked |-> TRUE, value |-> v]

\* the panic of code.go line 59: code, backquote, %d, backquote, " is reserved by ",
\* the backquoted import path, " as Unknown Code"
ReservedPanic(c) ==
    Panic(Sprintf(<<"c", "o", "d", "e", " ", Backquote, "%", "d", Backquote, " ", "i", "s", " ",
                    "r", "e", "s", "e", "r", "v", "e", "d", " ", "b", "y", " ",
                    Backquote, "g", "i", "t", "h", "u", "b", ".", "c", "o", "m", "/", "s", "h", "i", "p", "e", "n", "g", "q", "i", "/", "e", "r", "r", "o", "r", "s", Backquote,
                    " ", "a", "s", " ",
                    "U", "n", "k", "n", "o", "w", "n", " ", "C", "o", "d", "e">>,
                  <<[d |-> c.code]>>))

\* the panic of code.go line 62: code, backquote, %d, backquote, " already registered"
DuplicatePanic(c) ==
    Panic(Sprintf(<<"c", "o", "d", "e", " ", Backquote, "%", "d", Backquote, " ",
                    "a", "l", "r", "e", "a", "d", "y", " ",
                    "r", "e", "g", "i", "s", "t", "e", "r", "e", "d">>,
                  <<[d |-> c.code]>>))

\* a Register without its two checks
RegisterUnchecked(codes, c) ==
    [codes |-> MapInsert(codes, c), panic |-> NoPanic]

\* a Register without the duplicate check
RegisterOverwrite(codes, c) ==
    IF c.code = unknownCode.code
    THEN [codes |-> codes, panic |-> ReservedPanic(c)]
    ELSE [codes |-> MapInsert(codes, c), panic |-> NoPanic]

\* Register(code), run alone from call to return: the registry it leaves
\* and the panic it raises
Register(codes, c) ==
    IF c.code = unknownCode.code
    THEN [codes |-> codes, panic |-> ReservedPanic(c)]
    ELSE IF c.code \in DOMAIN codes
    THEN [codes |-> codes, panic |-> DuplicatePanic(c)]
    ELSE [codes |-> MapInsert(codes, c), panic |-> NoPanic]

\* an unregister that resets the registry to its first contents
unregisterReset(codes, c) ==
    IF c.code \in DOMAIN codes THEN init ELSE codes

\* unregister(code), run alone from call to return
unregister(codes, c) ==
    IF c.code \in DOMAIN codes THEN MapDelete(codes, c) ELSE codes

\* a ParseCoder without the nil check
ParseCoderNoNilCheck(e) ==
    IF IsICoder(e) /\ CodeOf(e) \in DOMAIN _codes THEN _codes[CodeOf(e)]
    ELSE unknownCode

\* a ParseCoder that never consults the registry
ParseCoderNoLookup(e) ==
    IF e = Nil THEN NilCoder ELSE unknownCode

\* ParseCoder(err)
ParseCoder(e) ==
    IF e = Nil THEN NilCoder
    ELSE IF IsICoder(e) /\ CodeOf(e) \in DOMAIN _codes THEN _codes[CodeOf(e)]
    ELSE unknownCode

RECURSIVE IsCode(_, _)

\* an IsCode that answers at the first node carrying a code
IsCodeFirstOnly(e, c) ==
    IF IsICoder(e) THEN CodeOf(e) = c
    ELSE IF IsCauser(e) THEN IsCode(CauseOf(e), c)
    ELSE FALSE

\* IsCode(err, code)
IsCode(e, c) ==
    IF IsICoder(e) /\ CodeOf(e) = c THEN TRUE
    ELSE IF IsCauser(e) THEN IsCode(CauseOf(e), c)
    ELSE FALSE

---------------------------------------------------------------------------
(* Join *)

\* err != nil, of one argument of Join
NotNil(e) == e # Nil

\* a Join that keeps the nil arguments in its list
JoinKeepsNil(errs) ==
    IF \A i \in DOMAIN errs : errs[i] = Nil THEN Nil
    ELSE [kind |-> "joinError", errs |-> errs, cap |-> Len(errs)]

\* Join(errs...): nil when no argument is non-nil; otherwise a joinError
\* whose list is allocated with room for the non-nil arguments and then
\* filled with them in order
Join(errs) ==
    LET n == Cardinality({i \in DOMAIN errs : NotNil(errs[i])})
    IN  IF n = 0 THEN Nil
        ELSE [kind |-> "joinError", errs |-> SelectSeq(errs, NotNil),
              cap |-> n]

\* (*joinError).Unwrap() []error
Unwrap(j) == j.errs

\* (*joinError).Error: the first member's Error(), then "\n" and the
\* Error() of each later member
RECURSIVE joinErrorText(_, _)
joinErrorText(errs, k) ==
    IF k = 1 THEN Error(errs[1])
    ELSE joinErrorText(errs, k - 1) \o <<"\n">> \o Error(errs[k])

joinErrorError(j) == joinErrorText(j.errs, Len(j.errs))

---------------------------------------------------------------------------
(* The inputs the callers draw from *)

\* messages given to New
BaseMsgs == {<<"e">>, <<"f">>}

\* messages given to Wrap and WithMessage
WrapMsgs == {<<"m">>}

\* format and arguments given to Errorf
ErrorfCalls == {[format |-> <<"%", "s">>, args |-> <<[s |-> <<"f">>]>>]}

\* format and arguments given to Wrapf, WithMessagef, WrapCodef, WithCodef
FormatCalls == {[format |-> <<"%", "s">>, args |-> <<[s |-> <<"m">>]>>]}

\* codes given to WithCode, WrapCode, IsCode: the reserved code, the code of
\* the tests' Coders, the code of the README's Coder
Codes == {1, 3, 20013}

\* code_test.go TestRegisterPanic: a Coder with the reserved code
mockErrCode1 == [code |-> 1, status |-> 200, msg |-> "error", ref |-> ""]

\* TestRegister, "HTTP status 0": a Coder with code 3 and no status
mockSuccessCode2 == [code |-> 3, status |-> 0, msg |-> "SUCCESS", ref |-> ""]

\* TestRegisterPanic2: another Coder with code 3
mockErrCode == [code |-> 3, status |-> 200, msg |-> "error", ref |-> ""]

\* the README's demoCoder
demoCoder ==
    [code |-> 20013, status |-> 400, msg |-> "bad request",
     ref |-> "https://docs.example.com/codes"]

\* the Coders given to Register and unregister
Coders == {mockErrCode1, mockSuccessCode2, mockErrCode, demoCoder}

\* the format calls given to Codef: one without a verb, one with
CodefCalls ==
    {[format |-> <<"e">>, args |-> <<>>]} \cup ErrorfCalls

\* the errors TestJoin joins, and nil
JoinErrs ==
    {Nil, New(<<"e">>), New(<<"f">>), WithStack(New(<<"e">>)),
     WithMessage(New(<<"e">>), <<"m">>), WithCode(New(<<"e">>), 99)}

\* the argument lists given to Join
JoinArgs == UNION {[1 .. n -> JoinErrs] : n \in 0 .. MaxJoin}

Threads == 1 .. NumThreads

---------------------------------------------------------------------------
(* The initial state: the package initialised, no call made yet *)

Init ==
    /\ err = Nil
    /\ arg = Nil
    /\ call = [op |-> "init"]
    /\ _codes = init
    /\ mux = 0
    /\ pc = [t \in Threads |-> "idle"]
    /\ code = [t \in Threads |-> unknownCode]
    /\ ok = [t \in Threads |-> FALSE]
    /\ recovered = [t \in Threads |-> NoPanic]
    /\ fatal = FALSE

---------------------------------------------------------------------------
(* A single caller: each action is one whole call *)

\* the caller keeps the result of a constructor given e
Returned(result, e, c) ==
    /\ Depth(e) <= MaxDepth
    /\ err' = result
    /\ arg' = e
    /\ call' = c
    /\ UNCHANGED <<_codes, concVars>>

\* what the caller passes as the err argument: the error it holds, or nil
Given == {err, Nil}

CallNew ==
    \E m \in BaseMsgs :
        Returned(New(m), Nil, [op |-> "New", msg |-> m])

CallErrorf ==
    \E f \in ErrorfCalls :
        Returned(Errorf(f.format, f.args), Nil, [op |-> "Errorf", f |-> f])

CallWithStack ==
    \E e \in Given :
        Returned(WithStack(e), e, [op |-> "WithStack"])

CallWrap ==
    \E e \in Given, m \in WrapMsgs :
        Returned(Wrap(e, m), e, [op |-> "Wrap", msg |-> m])

CallWrapf ==
    \E e \in Given, f \in FormatCalls :
        Returned(Wrapf(e, f.format, f.args), e, [op |-> "Wrapf", f |-> f])

CallWithMessage ==
    \E e \in Given, m \in WrapMsgs :
        Returned(WithMessage(e, m), e, [op |-> "WithMessage", msg |-> m])

CallWithMessagef ==
    \E e \in Given, f \in FormatCalls :
        Returned(WithMessagef(e, f.format, f.args), e,
                 [op |-> "WithMessagef", f |-> f])

CallWrapCode ==
    \E e \in Given, c \in Codes :
        Returned(WrapCode(e, c), e, [op |-> "WrapCode", code |-> c])

CallWrapCodef ==
    \E e \in Given, c \in Codes, f \in FormatCalls :
        Returned(WrapCodef(e, c, f.format, f.args), e,
                 [op |-> "WrapCodef", code |-> c, f |-> f])

CallWithCode ==
    \E e \in Given, c \in Codes :
        Returned(WithCode(e, c), e, [op |-> "WithCode", code |-> c])

CallWithCodef ==
    \E e \in Given, c \in Codes, f \in FormatCalls :
        Returned(WithCodef(e, c, f.format, f.args), e,
                 [op |-> "WithCodef", code |-> c, f |-> f])

CallCodef ==
    \E c \in Codes, f \in CodefCalls :
        Returned(Codef(c, f.format, f.args), Nil,
                 [op |-> "Codef", code |-> c, f |-> f])

\* Register(c): the lock is taken and released within the call
CallRegister ==
    \E c \in Coders :
        /\ _codes' = Register(_codes, c).codes
        /\ call' = [op |-> "Register", coder |-> c,
                    panic |-> Register(_codes, c).panic]
        /\ UNCHANGED <<err, arg, concVars>>

\* unregister(c), of any Coder the package's own code may pass
CallUnregister ==
    \E c \in Coders \cup {unknownCode} :
        /\ _codes' = unregister(_codes, c)
        /\ call' = [op |-> "unregister", coder |-> c,
                    present |-> c.code \in DOMAIN _codes]
        /\ UNCHANGED <<err, arg, concVars>>

Next ==
    \/ CallNew
    \/ CallErrorf
    \/ CallWithStack
    \/ CallWrap
    \/ CallWrapf
    \/ CallWithMessage
    \/ CallWithMessagef
    \/ CallWrapCode
    \/ CallWrapCodef
    \/ CallWithCode
    \/ CallWithCodef
    \/ CallCodef
    \/ CallRegister
    \/ CallUnregister

Spec == Init /\ [][Next]_vars

---------------------------------------------------------------------------
(* Concurrent callers of Register and unregister: each action is one step   *)
(* of one thread, named after the line of code.go the thread is at.  A map  *)
(* write takes two steps, so that other threads can act while it is under   *)
(* way; a map read is one step.                                             *)

\* the threads in the middle of a map write, other than t
Writers(t) ==
    {u \in Threads \ {t} : pc[u] \in {"Register67w", "unregister107w"}}

\* the registry once u's write under way is done
AfterWrite(u) ==
    IF pc[u] = "Register67w" THEN MapInsert(_codes, code[u])
    ELSE MapDelete(_codes, code[u])

\* what the presence check _, ok := _codes[code.Code()] of thread t may
\* yield: the map's answer, and, when it races with a write, the answer
\* the map gives once that write is done
ReadOutcomes(t) ==
    {(code[t].code \in DOMAIN _codes)}
        \cup {(code[t].code \in DOMAIN AfterWrite(u)) : u \in Writers(t)}

\* a thread calls Register(c)
ThreadRegister(t) ==
    /\ pc[t] = "idle" /\ ~fatal
    /\ \E c \in Coders : code' = [code EXCEPT ![t] = c]
    /\ pc' = [pc EXCEPT ![t] = "Register58"]
    /\ UNCHANGED <<seqVars, _codes, mux, ok, recovered, fatal>>

\* a thread calls unregister(c)
ThreadUnregister(t) ==
    /\ pc[t] = "idle" /\ ~fatal
    /\ \E c \in Coders : code' = [code EXCEPT ![t] = c]
    /\ pc' = [pc EXCEPT ![t] = "unregister103"]
    /\ UNCHANGED <<seqVars, _codes, mux, ok, recovered, fatal>>

\* if code.Code() == unknownCode.Code() { panic(...) }
Register58(t) ==
    /\ pc[t] = "Register58" /\ ~fatal
    /\ IF code[t].code = unknownCode.code
       THEN /\ recovered' = [recovered EXCEPT ![t] = ReservedPanic(code[t])]
            /\ pc' = [pc EXCEPT ![t] = "idle"]
       ELSE /\ pc' = [pc EXCEPT ![t] = "Register61"]
            /\ UNCHANGED recovered
    /\ UNCHANGED <<seqVars, _codes, mux, code, ok, fatal>>

\* if _, ok := _codes[code.Code()]; ok { panic(...) }: the map is read
\* without the mutex; reading while another thread writes, the runtime may
\* throw "concurrent map read and map write", which ends the process
Register61(t) ==
    /\ pc[t] = "Register61" /\ ~fatal
    /\ \/ \E b \in ReadOutcomes(t) :
            /\ ok' = [ok EXCEPT ![t] = b]
            /\ IF b
               THEN /\ recovered' = [recovered EXCEPT ![t] = DuplicatePanic(code[t])]
                    /\ pc' = [pc EXCEPT ![t] = "idle"]
               ELSE /\ pc' = [pc EXCEPT ![t] = "Register64"]
                    /\ UNCHANGED recovered
            /\ UNCHANGED fatal
       \/ /\ Writers(t) # {}
          /\ fatal' = TRUE
          /\ UNCHANGED <<pc, ok, recovered>>
    /\ UNCHANGED <<seqVars, _codes, mux, code>>

\* mux.Lock()
Register64(t) ==
    /\ pc[t] = "Register64" /\ ~fatal
    /\ mux = 0
    /\ mux' = t
    /\ pc' = [pc EXCEPT ![t] = "Register67"]
    /\ UNCHANGED <<seqVars, _codes, code, ok, recovered, fatal>>

\* _codes[code.Code()] = code: the write begins
Register67(t) ==
    /\ pc[t] = "Register67" /\ ~fatal
    /\ pc' = [pc EXCEPT ![t] = "Register67w"]
    /\ UNCHANGED <<seqVars, _codes, mux, code, ok, recovered, fatal>>

\* _codes[code.Code()] = code: the write is done
Register67w(t) ==
    /\ pc[t] = "Register67w" /\ ~fatal
    /\ _codes' = MapInsert(_codes, code[t])
    /\ pc' = [pc EXCEPT ![t] = "Register68"]
    /\ UNCHANGED <<seqVars, mux, code, ok, recovered, fatal>>

\* the deferred mux.Unlock(), and the return
Register68(t) ==
    /\ pc[t] = "Register68" /\ ~fatal
    /\ mux' = 0
    /\ recovered' = [recovered EXCEPT ![t] = NoPanic]
    /\ pc' = [pc EXCEPT ![t] = "idle"]
    /\ UNCHANGED <<seqVars, _codes, code, ok, fatal>>

\* if _, ok := _codes[code.Code()]; ok {: the map is read without the mutex
unregister103(t) ==
    /\ pc[t] = "unregister103" /\ ~fatal
    /\ \/ \E b \in ReadOutcomes(t) :
            /\ ok' = [ok EXCEPT ![t] = b]
            /\ pc' = [pc EXCEPT ![t] = IF b THEN "unregister104" ELSE "idle"]
            /\ recovered' = [recovered EXCEPT ![t] = NoPanic]
            /\ UNCHANGED fatal
       \/ /\ Writers(t) # {}
          /\ fatal' = TRUE
          /\ UNCHANGED <<pc, ok, recovered>>
    /\ UNCHANGED <<seqVars, _codes, mux, code>>

\* mux.Lock()
unregister104(t) ==
    /\ pc[t] = "unregister104" /\ ~fatal
    /\ mux = 0
    /\ mux' = t
    /\ pc' = [pc EXCEPT ![t] = "unregister107"]
    /\ UNCHANGED <<seqVars, _codes, code, ok, recovered, fatal>>

\* delete(_codes, code.Code()): the write begins
unregister107(t) ==
    /\ pc[t] = "unregister107" /\ ~fatal
    /\ pc' = [pc EXCEPT ![t] = "unregister107w"]
    /\ UNCHANGED <<seqVars, _codes, mux, code, ok, recovered, fatal>>

\* delete(_codes, code.Code()): the write is done
unregister107w(t) ==
    /\ pc[t] = "unregister107w" /\ ~fatal
    /\ _codes' = MapDelete(_codes, code[t])
    /\ pc' = [pc EXCEPT ![t] = "unregister108"]
    /\ UNCHANGED <<seqVars, mux, code, ok, recovered, fatal>>

\* the deferred mux.Unlock(), and the return
unregister108(t) ==
    /\ pc[t] = "unregister108" /\ ~fatal
    /\ mux' = 0
    /\ pc' = [pc EXCEPT ![t] = "idle"]
    /\ UNCHANGED <<seqVars, _codes, code, ok, recovered, fatal>>

ConcNext ==
    \E t \in Threads :
        \/ ThreadRegister(t)
        \/ ThreadUnregister(t)
        \/ Register58(t)
        \/ Register61(t)
        \/ Register64(t)
        \/ Register67(t)
        \/ Register67w(t)
        \/ Register68(t)
        \/ unregister103(t)
        \/ unregister104(t)
        \/ unregister107(t)
        \/ unregister107w(t)
        \/ unregister108(t)

ConcSpec == Init /\ [][ConcNext]_vars

---------------------------------------------------------------------------
(* Join, a function of its arguments alone: each step is one call *)

CallJoin ==
    \E errs \in JoinArgs :
        /\ err' = Join(errs)
        /\ arg' = errs
        /\ call' = [op |-> "Join"]
        /\ UNCHANGED <<_codes, concVars>>

JoinNext == CallJoin

JoinSpec == Init /\ [][JoinNext]_vars

---------------------------------------------------------------------------
(* What the claims speak of *)

\* the nodes of a chain, from the outermost to the terminal one
RECURSIVE Nodes(_)
Nodes(e) ==
    IF e = Nil THEN {}
    ELSE IF IsCauser(e) THEN {e} \cup Nodes(CauseOf(e))
    ELSE {e}

\* the codes carried by the nodes of a chain
CodesOnChain(e) == {n.code : n \in {x \in Nodes(e) : x.kind = "withCode"}}

\* the code of the first code-bearing node, from the outermost inward
RECURSIVE FirstCode(_)
FirstCode(e) ==
    IF e.kind = "withCode" THEN e.code
    ELSE FirstCode(IF e.kind = "withStack" THEN e.error ELSE e.cause)

\* the Coder the registry holds for c, the unknown sentinel when it holds none
Registered(c) == IF c \in DOMAIN _codes THEN _codes[c] ELSE unknownCode

\* the decimal text of the codes in use
CodeText(c) ==
    CASE c = 1 -> <<"1">>
      [] c = 3 -> <<"3">>
      [] c = 20013 -> <<"2", "0", "0", "1", "3">>

\* the constructors that wrap a cause
WrapOps ==
    {"WithStack", "Wrap", "Wrapf", "WithMessage", "WithMessagef",
     "WrapCode", "WrapCodef", "WithCode", "WithCodef"}

\* the registry holds code 1, mapped to the unknown sentinel
SentinelKept == 1 \in DOMAIN _codes /\ _codes[1] = unknownCode

\* "code 1 is reserved by github.com/shipengqi/errors as Unknown Code",
\* with backquotes around 1 and around the import path
ReservedText ==
    <<"c", "o", "d", "e", " ", Backquote, "1", Backquote, " ", "i", "s",
      " ", "r", "e", "s", "e", "r", "v", "e", "d", " ", "b", "y", " ",
      Backquote, "g", "i", "t", "h", "u", "b", ".", "c", "o", "m", "/",
      "s", "h", "i", "p", "e", "n", "g", "q", "i", "/", "e", "r", "r", "o",
      "r", "s", Backquote, " ", "a", "s", " ", "U", "n", "k", "n", "o",
      "w", "n", " ", "C", "o", "d", "e">>

\* "code N already registered", with backquotes around N
DuplicateText(c) ==
    <<"c", "o", "d", "e", " ", Backquote>> \o CodeText(c)
        \o <<Backquote, " ", "a", "l", "r", "e", "a", "d", "y", " ",
             "r", "e", "g", "i", "s", "t", "e", "r", "e", "d">>

---------------------------------------------------------------------------
(* C1 *)

\* C1: for every non-nil chain, ParseCoder returns the Coder registered for
\* the code of the first code-bearing node from the outermost inward, also
\* when that node lies beneath a stack or message wrapper, and the unknown
\* sentinel when that code is not registered or no node carries a code.
C1_ParseCoderWalksChain ==
    err # Nil =>
        ParseCoder(err) =
            IF CodesOnChain(err) = {} THEN unknownCode
            ELSE Registered(FirstCode(err))

---------------------------------------------------------------------------
(* C2 *)

\* C2: in every registry state Register and unregister calls lead to, for
\* every non-nil error e and every code c, ParseCoder(WithCode(e, c)) is the
\* Coder the registry maps c to when c is present, and the unknown sentinel
\* (code 1) when c is absent; once demoCoder (code 20013, status 400) is
\* registered the result has HTTPStatus 400 and demoCoder's Reference.
C2_ParseCoderOfWithCode ==
    /\ \A c \in Codes :
        err # Nil =>
            LET r == ParseCoder(WithCode(err, c))
            IN  /\ c \in DOMAIN _codes => r = _codes[c]
                /\ c \notin DOMAIN _codes => r = unknownCode /\ r.code = 1
    /\ (call.op = "WithCode" /\ arg # Nil) => ParseCoder(err) = Registered(call.code)
    /\ (err # Nil /\ call.op = "Register" /\ call.coder = demoCoder
            /\ ~call.panic.panicked) =>
            /\ HTTPStatus(ParseCoder(WithCode(err, 20013))) = 400
            /\ Reference(ParseCoder(WithCode(err, 20013)))
                   = "https://docs.example.com/codes"

\* a code was unregistered while another is registered, and the caller
\* holds an error
C2_Witness ==
    /\ err # Nil
    /\ call.op = "unregister" /\ call.present /\ call.coder.code = 3
    /\ 3 \notin DOMAIN _codes
    /\ 20013 \in DOMAIN _codes

---------------------------------------------------------------------------
(* C3 *)

\* C3: ParseCoder returns nil if and only if its argument is nil; for a
\* non-nil error the result is a Coder, and it is the unknown sentinel
\* whenever the chain has no code or its first code is not registered.
C3_ParseCoderNilIffNil ==
    /\ ParseCoder(err) = NilCoder <=> err = Nil
    /\ ParseCoder(Nil) = NilCoder
    /\ err # Nil => ParseCoder(err) \in Coders \cup {unknownCode}
    /\ (err # Nil /\ CodesOnChain(err) = {}) => ParseCoder(err) = unknownCode
    /\ (err # Nil /\ CodesOnChain(err) # {} /\ FirstCode(err) \notin DOMAIN _codes)
            => ParseCoder(err) = unknownCode

\* the caller holds an error whose outermost node carries an unregistered
\* code, while another code is registered
C3_Witness ==
    /\ err # Nil
    /\ IsICoder(err) /\ CodeOf(err) = 3
    /\ 3 \notin DOMAIN _codes
    /\ 20013 \in DOMAIN _codes

---------------------------------------------------------------------------
(* C4 *)

\* C4: a call Register(c) inserts c under c.Code() if and only if c.Code()
\* is not 1 and the registry holds no entry for it; otherwise it panics and
\* leaves the registry as it was, with the reserved diagnostic when
\* c.Code() is 1 and the duplicate diagnostic when the code is present.
C4_RegisterContract ==
    [][call'.op = "Register" =>
        LET c == call'.coder
        IN  IF c.code # 1 /\ c.code \notin DOMAIN _codes
            THEN /\ ~call'.panic.panicked
                 /\ DOMAIN _codes' = DOMAIN _codes \cup {c.code}
                 /\ _codes'[c.code] = c
                 /\ \A k \in DOMAIN _codes : _codes'[k] = _codes[k]
            ELSE /\ _codes' = _codes
                 /\ call'.panic.panicked
                 /\ call'.panic.value =
                        IF c.code = 1 THEN ReservedText ELSE DuplicateText(c.code)
    ]_vars

\* Register was called with a Coder whose code another Coder holds: it
\* panicked and the other Coder is still there
C4_Witness ==
    /\ call.op = "Register"
    /\ call.panic.panicked
    /\ call.coder.code = 3
    /\ _codes[3] # call.coder

---------------------------------------------------------------------------
(* C5 *)

\* Register can accept c: it does when c's code is free
RegisterAccepts(c) == ~Register(init, c).panic.panicked

\* C5: the registry starts with exactly one entry, code 1 mapped to the
\* unknown sentinel, and no Register call, accepted or aborted, and no
\* unregister call of a Coder that Register accepts, takes that entry away
\* or changes it.
C5_SentinelStays ==
    /\ DOMAIN _codes = {1} /\ _codes[1] = unknownCode
    /\ [][(/\ SentinelKept
           /\ \/ call'.op = "Register"
              \/ call'.op = "unregister" /\ RegisterAccepts(call'.coder))
          => SentinelKept']_vars

\* a Coder that Register accepted has been unregistered again
C5_Witness ==
    /\ call.op = "unregister" /\ call.present
    /\ RegisterAccepts(call.coder)
    /\ SentinelKept

---------------------------------------------------------------------------
(* C6 *)

\* the lines at which a thread reads or writes the registry map
MapAccessLines ==
    {"Register61", "Register67", "Register67w",
     "unregister103", "unregister107", "unregister107w"}

\* C6: in every interleaving of concurrent Register and unregister calls,
\* a thread at a line that reads or writes the registry map holds the
\* mutex, so no thread is at a map access while another thread's map write
\* is under way.
C6_MapAccessUnderMutex ==
    /\ \A t \in Threads : pc[t] \in MapAccessLines => mux = t
    /\ \A t \in Threads : pc[t] \in MapAccessLines => Writers(t) = {}

---------------------------------------------------------------------------
(* C7 *)

\* the codes IsCode is asked about: those in use, and two no node carries
QueryCodes == Codes \cup {0, 2}

\* C7: IsCode(err, code) is true if and only if err is non-nil and some
\* node of the chain, under any mix of wrappers, carries that code; a chain
\* with several code-bearing nodes answers true for each of their codes and
\* false for every other code, whatever the registry holds.
C7_IsCodeAnyNode ==
    /\ \A c \in QueryCodes :
        IsCode(err, c) <=> (err # Nil /\ c \in CodesOnChain(err))
    /\ \A c \in QueryCodes : ~IsCode(Nil, c)
    /\ (call.op \in {"WithCode", "WrapCode", "WithCodef", "WrapCodef"} /\ arg # Nil) =>
            /\ IsCode(err, call.code)
            /\ \A c \in QueryCodes : IsCode(arg, c) => IsCode(err, c)

\* the caller holds a chain whose outermost node is a stack wrapper and
\* which carries two different codes, one of them not registered
C7_Witness ==
    /\ err # Nil
    /\ err.kind = "withStack"
    /\ Cardinality(CodesOnChain(err)) = 2
    /\ \E c \in CodesOnChain(err) : c \notin DOMAIN _codes

---------------------------------------------------------------------------
(* C8 *)

\* C8: a wrapping constructor given a non-nil error returns a chain with
\* the cause of that error; Cause of a chain is its terminal node, which
\* has no Cause method; Cause(nil) is nil.
C8_CausePreserved ==
    /\ (call.op \in WrapOps /\ arg # Nil) => Cause(err) = Cause(arg)
    /\ err # Nil =>
            /\ Cause(err) \in Nodes(err)
            /\ ~IsCauser(Cause(err))
            /\ Cause(err).kind = "fundamental"
    /\ Cause(Nil) = Nil
    /\ err = Nil => Cause(err) = Nil

\* WrapCodef has wrapped a chain that was itself a wrapper
C8_Witness ==
    /\ call.op = "WrapCodef"
    /\ arg # Nil /\ IsCauser(arg)
    /\ Depth(err) = Depth(arg) + 3

---------------------------------------------------------------------------
(* C9 *)

\* C9: every wrapping constructor given a nil cause returns nil, whatever
\* its message and code arguments, and given a non-nil cause returns a
\* non-nil error.
C9_NilPropagates ==
    call.op \in WrapOps =>
        /\ arg = Nil => err = Nil
        /\ arg # Nil => err # Nil /\ Depth(err) > Depth(arg)

\* WithCodef was given nil
C9_Witness ==
    /\ call.op = "WithCodef"
    /\ arg = Nil
    /\ err = Nil

---------------------------------------------------------------------------
(* C10 *)

---------------------------------------------------------------------------
(* C11 *)

\* C11: for every code c and format call, Error() of Codef(c, ...) is the
\* formatted message alone, and its %+v text contains "code: ", c in
\* decimal, ", " and the formatted message.
C11_CodefText ==
    call.op = "Codef" =>
        LET m == Sprintf(call.f.format, call.f.args)
        IN  /\ Error(err) = m
            /\ Contains(FormatPlusV(err),
                        <<"c", "o", "d", "e", ":", " ">> \o CodeText(call.code)
                            \o <<",", " ">> \o m)

---------------------------------------------------------------------------
(* C12 *)

\* the positions of the non-nil arguments
NonNilAt(errs) == {i \in DOMAIN errs : errs[i] # Nil}

\* the position of the k-th non-nil argument
NthNonNil(errs, k) ==
    CHOOSE i \in NonNilAt(errs) :
        Cardinality({j \in NonNilAt(errs) : j <= i}) = k

\* the Error() of the members of a non-empty list, "\n" between them
RECURSIVE NewlineJoined(_)
NewlineJoined(errs) ==
    IF Len(errs) = 1 THEN Error(Head(errs))
    ELSE Error(Head(errs)) \o <<"\n">> \o NewlineJoined(Tail(errs))

\* C12: Join returns nil exactly when no argument is non-nil (no
\* arguments at all included).  Otherwise the list of its Unwrap() is the
\* non-nil arguments in their order, nils dropped and duplicates kept, with
\* length equal to capacity, and its Error() is the Error() of the members
\* joined by "\n".
C12_Join ==
    call.op = "Join" =>
        /\ err = Nil <=> NonNilAt(arg) = {}
        /\ err # Nil =>
            /\ Len(Unwrap(err)) = Cardinality(NonNilAt(arg))
            /\ \A k \in DOMAIN Unwrap(err) :
                    Unwrap(err)[k] = arg[NthNonNil(arg, k)]
            /\ Len(Unwrap(err)) = err.cap
            /\ joinErrorError(err) = NewlineJoined(Unwrap(err))
        /\ arg = <<New(<<"e">>), Nil, New(<<"f">>)>> =>
                joinErrorError(err) = <<"e", "\n", "f">>

\* Join was given a nil between two different non-nil errors
C12_Witness ==
    /\ call.op = "Join"
    /\ Len(arg) = 3
    /\ arg[1] # Nil /\ arg[2] = Nil /\ arg[3] # Nil /\ arg[3] # arg[1]
    /\ err # Nil /\ Unwrap(err) = <<arg[1], arg[3]>>

---------------------------------------------------------------------------
(* C13 *)

\* Register followed by unregister of the same Coder gives back the
\* registry it started from
RegisterUndone(codes) ==
    \A d \in Coders :
        ~Register(codes, d).panic.panicked =>
            unregister(Register(codes, d).codes, d) = codes

\* C13: unregister(c) takes away the entry of c.Code() when there is one
\* and does nothing when there is none; every other entry stays as it was;
\* after it Register accepts any Coder of that code, unless the code is 1;
\* and Register followed by unregister restores the registry.
C13_UnregisterContract ==
    /\ [](RegisterUndone(_codes))
    /\ [][call'.op = "unregister" =>
            LET c == call'.coder
            IN  /\ call'.present = (c.code \in DOMAIN _codes)
                /\ DOMAIN _codes' = DOMAIN _codes \ {c.code}
                /\ \A k \in DOMAIN _codes' : _codes'[k] = _codes[k]
                /\ ~call'.present => _codes' = _codes
                /\ c.code # 1 =>
                        \A d \in Coders :
                            d.code = c.code =>
                                /\ ~Register(_codes', d).panic.panicked
                                /\ Register(_codes', d).codes[d.code] = d
                                /\ RegisterUndone(_codes')
       ]_vars

\* unregister took the entry of 20013 away and left the entry of 3
C13_Witness ==
    /\ call.op = "unregister"
    /\ call.present
    /\ call.coder = demoCoder
    /\ 20013 \notin DOMAIN _codes
    /\ 3 \in DOMAIN _codes

---------------------------------------------------------------------------
(* C14 *)

\* C14: in every interleaving of Register calls, a call that writes its
\* Coder into the registry finds no entry for that code there (every other
\* call for the code aborts with the duplicate diagnostic), so no step
\* replaces the Coder that the registry holds for a code.
C14_UniqueRegistration ==
    [][/\ \A t \in Threads :
            (pc[t] = "Register67w" /\ pc'[t] = "Register68") =>
                code[t].code \notin DOMAIN _codes
       /\ \A k \in DOMAIN _codes \cap DOMAIN _codes' :
            _codes'[k] = _codes[k]
    ]_vars

====
